---- MODULE Spec2Model ----
(***************************************************************************)
(* Model of compositor/src/vulkan: the instance bootstrap (enumerate,      *)
(* InstanceBuilder, Instance / Arc<InstanceInner>) of vulkan/mod.rs and    *)
(* the format tables of vulkan/renderer/format.rs.                         *)
(***************************************************************************)
EXTENDS Naturals, Integers, Sequences, FiniteSets, TLC

VARIABLES
    runtime_extensions, \* names the native runtime reports as instance extensions
    runtime_layers,     \* names the native runtime reports as instance layers
    enable_extensions,  \* InstanceBuilder.enable_extensions (Vec<String>)
    enable_layers,      \* InstanceBuilder.enable_layers (Vec<String>)
    builder,            \* "open" until build(self) moves the builder out
    result,             \* what build() returned
    nativeCalls,        \* the native calls build() made, in order
    enumerated,         \* what the last direct enumerate_*() call returned
    owners,             \* live holders of the Arc<InstanceInner>
    using,              \* holders currently using the raw handle
    created,            \* number of owners made so far (the first and its clones)
    strong,             \* the Arc's strong count
    dropping,           \* threads between the count reaching zero and Drop::drop
    destroyCalls,       \* number of destroy_instance calls made so far
    target_endian,      \* cfg(target_endian) of the build
    fmt_entry,          \* which lookup was called last
    fmt_input,          \* its argument
    fmt_result          \* what it returned

bootstrapVars == <<runtime_extensions, runtime_layers, enable_extensions, enable_layers,
                   builder, result, nativeCalls, enumerated, owners, using, created,
                   strong, dropping, destroyCalls>>
formatVars == <<target_endian, fmt_entry, fmt_input, fmt_result>>
vars == <<bootstrapVars, formatVars>>

----------------------------------------------------------------------------
(* Bounds of the model *)

\* total number of extension()/layer() calls made on one builder
MaxRequests == 3
\* number of owners one Arc<InstanceInner> has over its life (the Instance
\* build() returns and the clones made of it)
MaxOwners == 3

----------------------------------------------------------------------------
(* Names and native result codes *)

\* A requested name is any String. NulName stands for a string with an
\* interior NUL character.
NulName == "VK_bad\\0name"
Names == {"VK_KHR_surface", "VK_LAYER_KHRONOS_validation", NulName}

\* a decoding that takes the whole fixed-size name field, NUL bytes included
ReportableNamesWholeField == Names

\* Names the runtime can report: decoded by CStr::from_ptr, which stops at the
\* first NUL, so no reported name holds one.
ReportableNames == Names \ {NulName}

VkSuccess == "SUCCESS"
VkErrors == {"ERROR_OUT_OF_HOST_MEMORY", "ERROR_OUT_OF_DEVICE_MEMORY",
             "ERROR_INITIALIZATION_FAILED"}
VkResults == {VkSuccess} \cup VkErrors

\* What the runtime answers to a native call made after calls that returned
\* `earlier`: once one of them failed the later call is never made, and its
\* answer is immaterial (one representative stands for it).
Answers(earlier) ==
    IF \A i \in 1..Len(earlier) : earlier[i] = VkSuccess THEN VkResults ELSE {VkSuccess}

----------------------------------------------------------------------------
(* InstanceError and MissingExtensionsOrLayers *)

NoError == [tag |-> "none", code |-> "", missing_extensions |-> <<>>,
            missing_layers |-> <<>>]

OutOfMemory == [NoError EXCEPT !.tag = "OutOfMemory"]

Other(err) == [NoError EXCEPT !.tag = "Other", !.code = err]

\* From<MissingExtensionsOrLayers> for InstanceError
MissingExtensionsOrLayers(me, ml) ==
    [NoError EXCEPT !.tag = "MissingExtensionsOrLayers",
                    !.missing_extensions = me, !.missing_layers = ml]

\* a mapping that keeps the out-of-device-memory code apart from OutOfMemory
FromVkResultHostOnly(err) ==
    IF err = "ERROR_OUT_OF_HOST_MEMORY" THEN OutOfMemory ELSE Other(err)

\* From<ash::vk::Result> for InstanceError
FromVkResult(err) ==
    IF err = "ERROR_OUT_OF_HOST_MEMORY" THEN OutOfMemory
    ELSE IF err = "ERROR_OUT_OF_DEVICE_MEMORY" THEN OutOfMemory
    ELSE Other(err)

None == [some |-> FALSE, value |-> <<>>]
Some(v) == [some |-> TRUE, value |-> v]

\* an accessor that wraps the list whether or not it is empty
missing_extensions_always_some(err) == Some(err.missing_extensions)

\* MissingExtensionsOrLayers::missing_extensions
missing_extensions(err) ==
    IF err.missing_extensions = <<>> THEN None ELSE Some(err.missing_extensions)

\* MissingExtensionsOrLayers::missing_layers
missing_layers(err) ==
    IF err.missing_layers = <<>> THEN None ELSE Some(err.missing_layers)

----------------------------------------------------------------------------
(* Enumeration *)

EnumOk(names) == [ok |-> TRUE, names |-> names, err |-> NoError]
EnumErr(e) == [ok |-> FALSE, names |-> {}, err |-> e]

\* enumerate_layers(): ret is what enumerate_instance_layer_properties returned
enumerate_layers(ret, props) ==
    IF ret # VkSuccess THEN EnumErr(FromVkResult(ret)) ELSE EnumOk(props)

\* an enumeration that swallows the native failure and reports nothing available
enumerate_extensions_swallow(ret, props) ==
    IF ret # VkSuccess THEN EnumOk({}) ELSE EnumOk(props)

\* enumerate_extensions(): ret is what enumerate_instance_extension_properties returned
enumerate_extensions(ret, props) ==
    IF ret # VkSuccess THEN EnumErr(FromVkResult(ret)) ELSE EnumOk(props)

LayerCall(ret) == [call |-> "enumerate_instance_layer_properties", ret |-> ret,
                   extensions |-> <<>>, layers |-> <<>>]
ExtensionCall(ret) == [call |-> "enumerate_instance_extension_properties", ret |-> ret,
                       extensions |-> <<>>, layers |-> <<>>]
CreateCall(ret, exts, lays) == [call |-> "create_instance", ret |-> ret,
                                extensions |-> exts, layers |-> lays]

----------------------------------------------------------------------------
(* InstanceBuilder::build *)

\* filter that keeps one copy of each missing name
RECURSIVE MissingFromDedup(_, _)
MissingFromDedup(requested, supported) ==
    IF requested = <<>> THEN <<>>
    ELSE LET s == Head(requested)
             rest == MissingFromDedup(Tail(requested), supported)
         IN IF s \notin supported /\ ~(\E i \in 1..Len(rest) : rest[i] = s)
            THEN <<s>> \o rest ELSE rest

\* requested.iter().filter(|s| !supported.contains(s)).cloned().collect()
RECURSIVE MissingFrom(_, _)
MissingFrom(requested, supported) ==
    IF requested = <<>> THEN <<>>
    ELSE LET s == Head(requested)
             rest == MissingFrom(Tail(requested), supported)
         IN IF s \notin supported THEN <<s>> \o rest ELSE rest

\* CString::new fails on a string with an interior NUL
CStringNewFails(names) == \E i \in 1..Len(names) : names[i] = NulName

\* the CString made of a name: its bytes and the terminating NUL
CString(s) == <<s, "\\0">>

\* a marshalling that passes each name once
RECURSIVE MarshalDedup(_)
MarshalDedup(names) ==
    IF names = <<>> THEN <<>>
    ELSE LET rest == MarshalDedup(Tail(names))
         IN IF \E i \in 1..Len(rest) : rest[i] = CString(Head(names))
            THEN rest ELSE <<CString(Head(names))>> \o rest

\* names.iter().map(|s| CString::new(s.clone())).collect(), then as_ptr of each:
\* the null-terminated strings create_instance is given, in request order
Marshal(names) == [i \in 1..Len(names) |-> CString(names[i])]

Ok == [NoError EXCEPT !.tag = "Ok"]
Panic(msg) == [NoError EXCEPT !.tag = "panic", !.code = msg]

\* a build that creates the native instance first and validates afterwards
build_create_first(exts, lays, rl, re, rc, rt_exts, rt_lays) ==
    LET missing_exts == MissingFrom(exts, rt_exts)
        missing_lays == MissingFrom(lays, rt_lays)
        calls == <<CreateCall(rc, Marshal(exts), Marshal(lays)), LayerCall(rl), ExtensionCall(re)>>
    IN IF rc # VkSuccess THEN [result |-> FromVkResult(rc), calls |-> SubSeq(calls, 1, 1)]
       ELSE IF rl # VkSuccess THEN [result |-> FromVkResult(rl), calls |-> SubSeq(calls, 1, 2)]
       ELSE IF re # VkSuccess THEN [result |-> FromVkResult(re), calls |-> calls]
       ELSE IF missing_exts # <<>> \/ missing_lays # <<>>
            THEN [result |-> MissingExtensionsOrLayers(missing_exts, missing_lays),
                  calls |-> calls]
       ELSE [result |-> Ok, calls |-> calls]

\* InstanceBuilder::build: rl, re, rc are what the native runtime answers to the
\* layer enumeration, the extension enumeration and create_instance if asked.
build(exts, lays, rl, re, rc, rt_exts, rt_lays) ==
    LET supported_layers == enumerate_layers(rl, rt_lays)
        supported_extensions == enumerate_extensions(re, rt_exts)
        missing_exts == MissingFrom(exts, supported_extensions.names)
        missing_lays == MissingFrom(lays, supported_layers.names)
    IN IF ~supported_layers.ok
       THEN [result |-> supported_layers.err, calls |-> <<LayerCall(rl)>>]
       ELSE IF ~supported_extensions.ok
       THEN [result |-> supported_extensions.err,
             calls |-> <<LayerCall(rl), ExtensionCall(re)>>]
       ELSE IF missing_exts # <<>> \/ missing_lays # <<>>
       THEN [result |-> MissingExtensionsOrLayers(missing_exts, missing_lays),
             calls |-> <<LayerCall(rl), ExtensionCall(re)>>]
       ELSE IF CStringNewFails(exts)
       THEN [result |-> Panic("Non UTF-8 extension string"),
             calls |-> <<LayerCall(rl), ExtensionCall(re)>>]
       ELSE IF CStringNewFails(lays)
       THEN [result |-> Panic("Non UTF-8 layer string"),
             calls |-> <<LayerCall(rl), ExtensionCall(re)>>]
       ELSE IF rc # VkSuccess
       THEN [result |-> FromVkResult(rc),
             calls |-> <<LayerCall(rl), ExtensionCall(re), CreateCall(rc, Marshal(exts), Marshal(lays))>>]
       ELSE [result |-> Ok,
             calls |-> <<LayerCall(rl), ExtensionCall(re), CreateCall(rc, Marshal(exts), Marshal(lays))>>]

----------------------------------------------------------------------------
(* Arc<InstanceInner> *)

\* Arc::clone: fetch_add(1) on the strong count
ArcClone(count) == count + 1

\* a release that takes every owner for the last one
IsLastOwnerAlways(prev) == prev >= 1

\* Arc::drop: fetch_sub(1) returned prev; the inner value is dropped when prev = 1
IsLastOwner(prev) == prev = 1

----------------------------------------------------------------------------
(* The bootstrap state machine *)

NoEnumeration == [op |-> "none", ret |-> EnumOk({}), calls |-> <<>>]
NoResult == [NoError EXCEPT !.tag = "pending"]

InitBootstrapIdle ==
    /\ enable_extensions = <<>>
    /\ enable_layers = <<>>
    /\ builder = "open"
    /\ result = NoResult
    /\ nativeCalls = <<>>
    /\ enumerated = NoEnumeration
    /\ owners = {}
    /\ using = {}
    /\ created = 0
    /\ strong = 0
    /\ dropping = 0
    /\ destroyCalls = 0

InitFormatIdle ==
    /\ target_endian = "little"
    /\ fmt_entry = "none"
    /\ fmt_input = ""
    /\ fmt_result = None

\* Instance::builder() on a host whose runtime offers some extensions and layers
Init ==
    /\ runtime_extensions \in SUBSET ReportableNames
    /\ runtime_layers \in SUBSET ReportableNames
    /\ InitBootstrapIdle
    /\ InitFormatIdle

\* InstanceBuilder::extension
Extension(name) ==
    /\ builder = "open"
    /\ Len(enable_extensions) + Len(enable_layers) < MaxRequests
    /\ enable_extensions' = Append(enable_extensions, name)
    /\ UNCHANGED <<runtime_extensions, runtime_layers, enable_layers, builder, result,
                   nativeCalls, enumerated, owners, using, created, strong,
                   dropping, destroyCalls, formatVars>>

\* InstanceBuilder::layer
Layer(name) ==
    /\ builder = "open"
    /\ Len(enable_extensions) + Len(enable_layers) < MaxRequests
    /\ enable_layers' = Append(enable_layers, name)
    /\ UNCHANGED <<runtime_extensions, runtime_layers, enable_extensions, builder, result,
                   nativeCalls, enumerated, owners, using, created, strong,
                   dropping, destroyCalls, formatVars>>

\* InstanceBuilder::build(self): consumes the builder; on success the returned
\* Instance is the first owner of Arc::new(InstanceInner { instance })
Build ==
    /\ builder = "open"
    /\ \E rl \in VkResults : \E re \in Answers(<<rl>>) : \E rc \in Answers(<<rl, re>>) :
         LET out == build(enable_extensions, enable_layers, rl, re, rc,
                          runtime_extensions, runtime_layers)
         IN /\ result' = out.result
            /\ nativeCalls' = out.calls
            /\ owners' = IF out.result.tag = "Ok" THEN {1} ELSE {}
            /\ created' = IF out.result.tag = "Ok" THEN 1 ELSE 0
            /\ strong' = IF out.result.tag = "Ok" THEN 1 ELSE 0
    /\ builder' = "consumed"
    /\ enumerated' = NoEnumeration
    /\ UNCHANGED <<runtime_extensions, runtime_layers, enable_extensions, enable_layers,
                   using, dropping, destroyCalls, formatVars>>

\* a direct call of enumerate_layers(), made while the request is assembled
\* (what it returned is not carried past the build)
EnumerateLayers ==
    /\ builder = "open"
    /\ \E ret \in VkResults :
         enumerated' = [op |-> "enumerate_layers",
                        ret |-> enumerate_layers(ret, runtime_layers),
                        calls |-> <<LayerCall(ret)>>]
    /\ UNCHANGED <<runtime_extensions, runtime_layers, enable_extensions, enable_layers,
                   builder, result, nativeCalls, owners, using, created, strong,
                   dropping, destroyCalls, formatVars>>

\* a direct call of enumerate_extensions(), made while the request is assembled
EnumerateExtensions ==
    /\ builder = "open"
    /\ \E ret \in VkResults :
         enumerated' = [op |-> "enumerate_extensions",
                        ret |-> enumerate_extensions(ret, runtime_extensions),
                        calls |-> <<ExtensionCall(ret)>>]
    /\ UNCHANGED <<runtime_extensions, runtime_layers, enable_extensions, enable_layers,
                   builder, result, nativeCalls, owners, using, created, strong,
                   dropping, destroyCalls, formatVars>>

\* cloning the Arc<InstanceInner> an owner holds
Clone(o) ==
    /\ o \in owners
    /\ created < MaxOwners
    /\ created' = created + 1
    /\ owners' = owners \cup {created + 1}
    /\ strong' = ArcClone(strong)
    /\ UNCHANGED <<runtime_extensions, runtime_layers, enable_extensions, enable_layers,
                   builder, result, nativeCalls, enumerated, using, dropping,
                   destroyCalls, formatVars>>

\* Instance::handle: an owner starts using the raw handle it borrowed
BeginUse(o) ==
    /\ o \in owners \ using
    /\ using' = using \cup {o}
    /\ UNCHANGED <<runtime_extensions, runtime_layers, enable_extensions, enable_layers,
                   builder, result, nativeCalls, enumerated, owners, created, strong,
                   dropping, destroyCalls, formatVars>>

\* the borrow of the owner ends
EndUse(o) ==
    /\ o \in using
    /\ using' = using \ {o}
    /\ UNCHANGED <<runtime_extensions, runtime_layers, enable_extensions, enable_layers,
                   builder, result, nativeCalls, enumerated, owners, created, strong,
                   dropping, destroyCalls, formatVars>>

\* an owner goes out of scope: Arc::drop decrements the strong count, and the
\* thread that saw the last count goes on to drop the InstanceInner
Release(o) ==
    /\ o \in owners \ using
    /\ owners' = owners \ {o}
    /\ strong' = strong - 1
    /\ dropping' = IF IsLastOwner(strong) THEN dropping + 1 ELSE dropping
    /\ UNCHANGED <<runtime_extensions, runtime_layers, enable_extensions, enable_layers,
                   builder, result, nativeCalls, enumerated, using, created,
                   destroyCalls, formatVars>>

\* impl Drop for InstanceInner: destroy_instance
DropInner ==
    /\ dropping > 0
    /\ dropping' = dropping - 1
    /\ destroyCalls' = destroyCalls + 1
    /\ UNCHANGED <<runtime_extensions, runtime_layers, enable_extensions, enable_layers,
                   builder, result, nativeCalls, enumerated, owners, using, created,
                   strong, formatVars>>

Next ==
    \/ \E name \in Names : Extension(name)
    \/ \E name \in Names : Layer(name)
    \/ Build
    \/ EnumerateLayers
    \/ EnumerateExtensions
    \/ \E o \in 1..MaxOwners : Clone(o)
    \/ \E o \in 1..MaxOwners : BeginUse(o)
    \/ \E o \in 1..MaxOwners : EndUse(o)
    \/ \E o \in 1..MaxOwners : Release(o)
    \/ DropInner

Spec == Init /\ [][Next]_vars

----------------------------------------------------------------------------
(* renderer/format.rs: format_tables! *)

Row(fourcc_wl, alpha, vk, little_only) ==
    [fourcc_wl |-> fourcc_wl, alpha |-> alpha, vk |-> vk, little_only |-> little_only]

\* The rows of the format_tables! invocation that give a vk: mapping, in
\* source order; little_only is #[cfg(target_endian = "little")] on the row.
format_tables ==
    << Row("Argb8888", TRUE, "B8G8R8A8_SRGB", FALSE),
       Row("Xrgb8888", FALSE, "B8G8R8A8_SRGB", FALSE),
       Row("Abgr8888", TRUE, "R8G8B8A8_SRGB", FALSE),
       Row("Xbgr8888", FALSE, "R8G8B8A8_SRGB", FALSE),
       Row("Rgba8888", TRUE, "A8B8G8R8_SRGB_PACK32", TRUE),
       Row("Rgbx8888", FALSE, "A8B8G8R8_SRGB_PACK32", TRUE),
       Row("Bgr888", FALSE, "R8G8B8_SRGB", FALSE),
       Row("Rgb888", FALSE, "B8G8R8_SRGB", FALSE),
       Row("R8", FALSE, "R8_SRGB", FALSE),
       Row("Gr88", FALSE, "R8G8_SRGB", FALSE),
       Row("Abgr16161616f", TRUE, "R16G16B16A16_SFLOAT", FALSE),
       Row("Xbgr16161616f", FALSE, "R16G16B16A16_SFLOAT", FALSE) >>

\* arms emitted without regard to the cfg attribute of the row
ArmsIgnoringCfg(endian) == format_tables

\* the match arms the macro emits for a target: a row under a cfg that does
\* not hold emits no arm
Arms(endian) ==
    SelectSeq(format_tables, LAMBDA row : ~row.little_only \/ endian = "little")

\* match: the first arm whose pattern is the scrutinee, else the `_ => None` arm
RECURSIVE Match(_, _)
Match(arms, id) ==
    IF arms = <<>> THEN None
    ELSE IF Head(arms).fourcc_wl = id THEN Some(<<Head(arms).vk, Head(arms).alpha>>)
    ELSE Match(Tail(arms), id)

\* a match whose fall-through arm answers with the first row of the table
RECURSIVE MatchDefaultFirst(_, _)
MatchDefaultFirst(arms, id) ==
    IF arms = <<>> THEN Some(<<format_tables[1].vk, format_tables[1].alpha>>)
    ELSE IF Head(arms).fourcc_wl = id THEN Some(<<Head(arms).vk, Head(arms).alpha>>)
    ELSE MatchDefaultFirst(Tail(arms), id)

fourcc_to_vk_default_first(fourcc, endian) == MatchDefaultFirst(Arms(endian), fourcc)

\* fourcc_to_vk(fourcc: Fourcc) -> Option<(vk::Format, bool)>
fourcc_to_vk(fourcc, endian) == Match(Arms(endian), fourcc)

\* wl_shm_to_vk(wl: wl_shm::Format) -> Option<(vk::Format, bool)>
wl_shm_to_vk(wl, endian) == Match(Arms(endian), wl)

\* Variants of smithay's Fourcc (drm_fourcc) the lookup is called with: the
\* twelve of the table and others that have no row.
FourccIds ==
    {"Argb8888", "Xrgb8888", "Abgr8888", "Xbgr8888", "Rgba8888", "Rgbx8888",
     "Bgr888", "Rgb888", "R8", "Gr88", "Abgr16161616f", "Xbgr16161616f",
     "Bgra8888", "Bgrx8888", "Rgb565", "Bgr565", "Argb2101010", "Xrgb2101010",
     "Abgr2101010", "Xbgr2101010", "Argb1555", "Argb4444", "Nv12", "Yuyv",
     "C8", "R16", "Rg88", "Gr1616", "Yuv420", "Rgb332"}

\* Variants of wl_shm::Format the lookup is called with
WlShmIds ==
    {"Argb8888", "Xrgb8888", "Abgr8888", "Xbgr8888", "Rgba8888", "Rgbx8888",
     "Bgr888", "Rgb888", "R8", "Gr88", "Abgr16161616f", "Xbgr16161616f",
     "Bgra8888", "Bgrx8888", "Rgb565", "Bgr565", "Argb2101010", "Xrgb2101010",
     "Argb16161616f", "Xrgb16161616f", "Argb1555", "Argb4444", "Nv12", "Yuyv",
     "C8", "R16", "Rg88", "Gr1616", "Yuv420", "Bgr233"}

\* the format lookups of a build for either endianness; no instance is involved
InitFormat ==
    /\ runtime_extensions = {}
    /\ runtime_layers = {}
    /\ InitBootstrapIdle
    /\ target_endian \in {"little", "big"}
    /\ fmt_entry = "none"
    /\ fmt_input = ""
    /\ fmt_result = None

FourccToVk(fourcc) ==
    /\ fmt_entry' = "fourcc_to_vk"
    /\ fmt_input' = fourcc
    /\ fmt_result' = fourcc_to_vk(fourcc, target_endian)
    /\ UNCHANGED <<bootstrapVars, target_endian>>

WlShmToVk(wl) ==
    /\ fmt_entry' = "wl_shm_to_vk"
    /\ fmt_input' = wl
    /\ fmt_result' = wl_shm_to_vk(wl, target_endian)
    /\ UNCHANGED <<bootstrapVars, target_endian>>

NextFormat ==
    \/ \E fourcc \in FourccIds : FourccToVk(fourcc)
    \/ \E wl \in WlShmIds : WlShmToVk(wl)

FormatSpec == InitFormat /\ [][NextFormat]_vars

----------------------------------------------------------------------------
(* Vocabulary of the properties *)

\* build() has returned
Built == builder = "consumed"

\* both enumerations of the build returned their lists
EnumerationsReturned ==
    /\ Len(nativeCalls) >= 2
    /\ nativeCalls[1] = LayerCall(VkSuccess)
    /\ nativeCalls[2] = ExtensionCall(VkSuccess)

\* every requested name is among the enumerated ones of its kind
AllRequestedAvailable ==
    /\ \A i \in 1..Len(enable_extensions) : enable_extensions[i] \in runtime_extensions
    /\ \A i \in 1..Len(enable_layers) : enable_layers[i] \in runtime_layers

CreateCalled == \E i \in 1..Len(nativeCalls) : nativeCalls[i].call = "create_instance"

\* no native instance exists and none was destroyed
NoInstance ==
    /\ owners = {}
    /\ created = 0
    /\ strong = 0
    /\ dropping = 0
    /\ destroyCalls = 0

OutOfMemoryCodes == {"ERROR_OUT_OF_HOST_MEMORY", "ERROR_OUT_OF_DEVICE_MEMORY"}

----------------------------------------------------------------------------
(* Properties of the bootstrap, checked under Spec *)

\* C1: when both enumerations returned and some requested name is absent from
\* the available set of its kind, build() fails with MissingExtensionsOrLayers
\* whose missing-extensions list is the requested extensions filtered to the
\* unavailable ones, in request order with duplicates kept, and whose
\* missing-layers list is the same filter of the requested layers.
C1_MissingListsAreTheFilteredRequests ==
    (Built /\ EnumerationsReturned /\ ~AllRequestedAvailable) =>
        /\ result.tag = "MissingExtensionsOrLayers"
        /\ result.missing_extensions =
               SelectSeq(enable_extensions, LAMBDA s : s \notin runtime_extensions)
        /\ result.missing_layers =
               SelectSeq(enable_layers, LAMBDA s : s \notin runtime_layers)

\* an available extension requested between two requests of the same missing one
C1_Witness ==
    /\ Built
    /\ result.tag = "MissingExtensionsOrLayers"
    /\ Len(enable_extensions) = 3
    /\ enable_extensions[2] \in runtime_extensions
    /\ result.missing_extensions = <<enable_extensions[1], enable_extensions[1]>>
    /\ result.missing_layers = <<>>

\* C2 as stated: whenever every requested name is available, build() succeeds
C2_Original_AvailableRequestAlwaysSucceeds ==
    (Built /\ EnumerationsReturned /\ AllRequestedAvailable) => result.tag = "Ok"

\* C2 amended: when every requested name (repeats included) is available,
\* validation passes and build() calls create_instance with the requested
\* names, null-terminated, in request order and with repeats kept; it returns a
\* Context exactly when that call succeeds, and the Context then is the single
\* owner of a live handle.
C2_AvailableRequestReachesCreation ==
    [][(builder = "open" /\ Built' /\ EnumerationsReturned' /\ AllRequestedAvailable') =>
         /\ Len(nativeCalls') = 3
         /\ nativeCalls'[3].call = "create_instance"
         /\ nativeCalls'[3].extensions =
                [i \in 1..Len(enable_extensions) |-> <<enable_extensions[i], "\\0">>]
         /\ nativeCalls'[3].layers =
                [i \in 1..Len(enable_layers) |-> <<enable_layers[i], "\\0">>]
         /\ (result'.tag = "Ok") <=> (nativeCalls'[3].ret = VkSuccess)
         /\ result'.tag = "Ok" =>
                (owners' = {1} /\ strong' = 1 /\ dropping' = 0 /\ destroyCalls' = 0)
         /\ result'.tag # "Ok" => NoInstance']_vars

\* a request that repeats an available extension was built
C2_Witness ==
    /\ Built
    /\ result.tag = "Ok"
    /\ Len(enable_extensions) = 2
    /\ enable_extensions[1] = enable_extensions[2]
    /\ Len(enable_layers) = 1
    /\ owners = {1}

\* C3: for the Context of a successful build, under every interleaving of
\* clones, uses and releases, destroy_instance is not called while an owner is
\* live (so never while one uses the handle), it is called at most once, and
\* once every owner is released and the last release has completed it has been
\* called exactly once; the strong count is the number of live owners.
C3_DestroyedExactlyOnceAfterLastRelease ==
    result.tag = "Ok" =>
        /\ strong = Cardinality(owners)
        /\ destroyCalls <= 1
        /\ owners # {} => (destroyCalls = 0 /\ dropping = 0)
        /\ using # {} => destroyCalls = 0
        /\ (owners = {} /\ dropping = 0) => destroyCalls = 1
        /\ dropping + destroyCalls <= 1

\* cloned twice, all three owners released, destroyed
C3_Witness ==
    /\ result.tag = "Ok"
    /\ created = 3
    /\ owners = {}
    /\ dropping = 0
    /\ destroyCalls = 1

\* C4: create_instance is called only as the third native call of a build,
\* after both enumerations returned and with no requested name missing; a
\* build that fails enumeration or validation makes no create_instance call,
\* leaves no instance and no destroy_instance call is made.
C4_ValidationPrecedesCreation ==
    Built =>
        /\ \A i \in 1..Len(nativeCalls) :
               nativeCalls[i].call = "create_instance" =>
                   (i = 3 /\ EnumerationsReturned /\ AllRequestedAvailable)
        /\ (result.tag = "MissingExtensionsOrLayers" \/ ~EnumerationsReturned) =>
               (~CreateCalled /\ NoInstance)

\* a build that failed validation
C4_Witness ==
    /\ Built
    /\ EnumerationsReturned
    /\ result.tag = "MissingExtensionsOrLayers"
    /\ ~CreateCalled
    /\ destroyCalls = 0

\* C5: when create_instance fails, build() returns OutOfMemory for the two
\* out-of-memory codes and Other(code) with the code unchanged for any other;
\* no Context is returned and destroy_instance is not called.
C5_CreationFailureMapsToInstanceError ==
    (Built /\ Len(nativeCalls) = 3 /\ nativeCalls[3].ret # VkSuccess) =>
        /\ nativeCalls[3].ret \in OutOfMemoryCodes => result = OutOfMemory
        /\ nativeCalls[3].ret \notin OutOfMemoryCodes =>
               (result.tag = "Other" /\ result.code = nativeCalls[3].ret)
        /\ NoInstance

\* creation failed with out-of-device-memory
C5_Witness ==
    /\ Built
    /\ Len(nativeCalls) = 3
    /\ nativeCalls[3].call = "create_instance"
    /\ nativeCalls[3].ret = "ERROR_OUT_OF_DEVICE_MEMORY"
    /\ result.tag = "OutOfMemory"

\* C6: for a MissingExtensionsOrLayers that build() returned,
\* missing_extensions() is None exactly when every requested extension was
\* available and otherwise Some of a non-empty list, missing_layers() likewise,
\* and the two are never both None.
C6_AccessorsTellTheKindsApart ==
    (Built /\ result.tag = "MissingExtensionsOrLayers") =>
        /\ (missing_extensions(result) = None) <=>
               (\A i \in 1..Len(enable_extensions) :
                    enable_extensions[i] \in runtime_extensions)
        /\ missing_extensions(result) # None =>
               (missing_extensions(result).some /\ missing_extensions(result).value # <<>>)
        /\ (missing_layers(result) = None) <=>
               (\A i \in 1..Len(enable_layers) : enable_layers[i] \in runtime_layers)
        /\ missing_layers(result) # None =>
               (missing_layers(result).some /\ missing_layers(result).value # <<>>)
        /\ ~(missing_extensions(result) = None /\ missing_layers(result) = None)

\* only layers were missing
C6_Witness ==
    /\ Built
    /\ result.tag = "MissingExtensionsOrLayers"
    /\ enable_extensions # <<>>
    /\ missing_extensions(result) = None
    /\ missing_layers(result).some

\* the native code an InstanceError lets its holder read
ExposedCode(err) == IF err.tag = "Other" THEN err.code ELSE "not exposed"

\* C7 as stated: a failed enumeration, direct or inside build(), yields an
\* error that exposes the native code, whichever code it is
C7_Original_EnumerationErrorExposesCode ==
    /\ (enumerated.op # "none" /\ enumerated.calls[1].ret # VkSuccess) =>
           (~enumerated.ret.ok /\ ExposedCode(enumerated.ret.err) = enumerated.calls[1].ret)
    /\ (Built /\ ~EnumerationsReturned) =>
           ExposedCode(result) = nativeCalls[Len(nativeCalls)].ret

\* C7 amended: a failed enumeration, direct or as a step of build(), makes the
\* call fail with OutOfMemory when the native code is out-of-host-memory or
\* out-of-device-memory (which of the two is not kept) and with Other(code),
\* the code unchanged, for any other; the enumeration is called once and no
\* native call follows it.
C7_EnumerationFailurePropagates ==
    /\ (enumerated.op # "none" /\ enumerated.calls[1].ret # VkSuccess) =>
           /\ ~enumerated.ret.ok
           /\ Len(enumerated.calls) = 1
           /\ enumerated.calls[1].ret \in OutOfMemoryCodes =>
                  enumerated.ret.err = OutOfMemory
           /\ enumerated.calls[1].ret \notin OutOfMemoryCodes =>
                  ExposedCode(enumerated.ret.err) = enumerated.calls[1].ret
    /\ (Built /\ ~EnumerationsReturned) =>
           LET last == nativeCalls[Len(nativeCalls)]
           IN /\ Len(nativeCalls) \in {1, 2}
              /\ nativeCalls[1].call = "enumerate_instance_layer_properties"
              /\ Len(nativeCalls) = 2 =>
                     /\ nativeCalls[1].ret = VkSuccess
                     /\ nativeCalls[2].call = "enumerate_instance_extension_properties"
              /\ last.ret # VkSuccess
              /\ last.ret \in OutOfMemoryCodes => result = OutOfMemory
              /\ last.ret \notin OutOfMemoryCodes => ExposedCode(result) = last.ret

\* the extension enumeration of a build failed with a code that is kept
C7_Witness ==
    /\ Built
    /\ Len(nativeCalls) = 2
    /\ nativeCalls[2] = ExtensionCall("ERROR_INITIALIZATION_FAILED")
    /\ result = Other("ERROR_INITIALIZATION_FAILED")

----------------------------------------------------------------------------
(* Properties of the format lookups, checked under FormatSpec *)

Looked == fmt_entry \in {"fourcc_to_vk", "wl_shm_to_vk"}

\* the format ids that have a row in the table
TableIds == {"Argb8888", "Xrgb8888", "Abgr8888", "Xbgr8888", "Rgba8888", "Rgbx8888",
             "Bgr888", "Rgb888", "R8", "Gr88", "Abgr16161616f", "Xbgr16161616f"}

PaddedFormats == {"Xrgb8888", "Xbgr8888", "Rgbx8888", "Xbgr16161616f"}
AlphaFormats == {"Argb8888", "Abgr8888", "Rgba8888", "Abgr16161616f"}

\* native formats that have an alpha component
AlphaBearingNative == {"B8G8R8A8_SRGB", "R8G8B8A8_SRGB", "A8B8G8R8_SRGB_PACK32",
                       "R16G16B16A16_SFLOAT"}

\* C9: a format without alpha that is mapped to an alpha-bearing native format
\* comes back with the swizzle flag true, and a format that carries alpha
\* comes back with the flag false.
C9_PaddedFormatsRequireSwizzle ==
    (Looked /\ fmt_result.some) =>
        /\ (fmt_input \in PaddedFormats /\ fmt_result.value[1] \in AlphaBearingNative) =>
               fmt_result.value[2] = TRUE
        /\ fmt_input \in AlphaFormats => fmt_result.value[2] = FALSE

\* native formats with sRGB encoding
SrgbNative == {"B8G8R8A8_SRGB", "R8G8B8A8_SRGB", "A8B8G8R8_SRGB_PACK32", "R8G8B8_SRGB",
               "B8G8R8_SRGB", "R8_SRGB", "R8G8_SRGB"}

\* C10: every native format a lookup returns is sRGB-encoded.
C10_OnlySrgbNativeFormats ==
    (Looked /\ fmt_result.some) => fmt_result.value[1] \in SrgbNative


\* the formats whose rows stand under #[cfg(target_endian = "little")]
PackedFormats == {"Rgba8888", "Rgbx8888"}

\* what each other row resolves to
EndianFreeNative ==
    [id \in TableIds \ PackedFormats |->
        CASE id \in {"Argb8888", "Xrgb8888"} -> "B8G8R8A8_SRGB"
          [] id \in {"Abgr8888", "Xbgr8888"} -> "R8G8B8A8_SRGB"
          [] id = "Bgr888" -> "R8G8B8_SRGB"
          [] id = "Rgb888" -> "B8G8R8_SRGB"
          [] id = "R8" -> "R8_SRGB"
          [] id = "Gr88" -> "R8G8_SRGB"
          [] id \in {"Abgr16161616f", "Xbgr16161616f"} -> "R16G16B16A16_SFLOAT"]

\* C11: Rgba8888 and Rgbx8888 resolve to A8B8G8R8_SRGB_PACK32 on a
\* little-endian target and to None on a big-endian target; every other row
\* resolves to the same native format and flag whatever the endianness.
C11_PackedFormatsOnlyOnLittleEndian ==
    Looked =>
        /\ (fmt_input \in PackedFormats /\ target_endian = "little") =>
               (fmt_result.some /\ fmt_result.value[1] = "A8B8G8R8_SRGB_PACK32")
        /\ (fmt_input \in PackedFormats /\ target_endian = "big") => fmt_result = None
        /\ fmt_input \in TableIds \ PackedFormats =>
               fmt_result = Some(<<EndianFreeNative[fmt_input],
                                   fmt_input \in AlphaFormats>>)

\* a packed format was looked up on a big-endian target
C11_Witness ==
    /\ Looked
    /\ target_endian = "big"
    /\ fmt_input = "Rgbx8888"
    /\ fmt_result = None

----------------------------------------------------------------------------
(* Marshalling in build(), checked under Spec *)

RequestsNulName ==
    \/ \E i \in 1..Len(enable_extensions) : enable_extensions[i] = NulName
    \/ \E i \in 1..Len(enable_layers) : enable_layers[i] = NulName

\* C12: build() never panics on marshalling: no enumerated name holds a NUL,
\* so a request that has a name with an interior NUL is answered with
\* MissingExtensionsOrLayers naming it once both enumerations returned, and
\* whenever create_instance is called no requested name holds a NUL.
C12_MarshallingNeverPanics ==
    /\ NulName \notin runtime_extensions \cup runtime_layers
    /\ Built =>
        /\ result.tag # "panic"
        /\ (RequestsNulName /\ EnumerationsReturned) =>
               /\ result.tag = "MissingExtensionsOrLayers"
               /\ \E i \in 1..Len(result.missing_extensions \o result.missing_layers) :
                      (result.missing_extensions \o result.missing_layers)[i] = NulName
        /\ CreateCalled => ~RequestsNulName

\* a request holding a name with an interior NUL, among available ones, was built
C12_Witness ==
    /\ Built
    /\ EnumerationsReturned
    /\ RequestsNulName
    /\ Len(enable_extensions) = 2
    /\ enable_extensions[1] \in runtime_extensions
    /\ enable_extensions[2] = NulName
    /\ result = MissingExtensionsOrLayers(<<NulName>>, <<>>)

====
